---- MODULE Spec2Model ----
(***************************************************************************)
(* State-machine model of clap-ftxui-support: the lifecycle coordinator    *)
(* (ftxui-clap-support.cpp), the render loop thread, the parameter-update  *)
(* queue and the terminal registry (embedded-terminal.cpp) on top of the   *)
(* X11 backend (embedded-terminal-linux.cpp).                              *)
(*                                                                         *)
(* Caller threads run the C API one statement group at a time, so that the *)
(* render loop thread and other callers interleave between the statements  *)
(* of one call.  Heap objects (FTXUIContext) are cells of a table that are *)
(* never reused, so that a dangling pointer stays recognisable.            *)
(***************************************************************************)
EXTENDS Integers, Sequences, FiniteSets, TLC

\* ------------------------------------------------------------- bounds --
\* Number of C API calls the host issues in one behaviour (lifecycle runs).
MaxOps == 3
\* Number of C API calls in the runs that concentrate on the queue.
MaxOpsQueue == 2
\* Number of C API calls in the runs with two concurrent caller threads.
MaxOpsMT == 2
\* Number of queue_parameter_update calls in the lifecycle runs.
MaxPushes == 1
\* Number of queue_parameter_update calls in the queue runs.
MaxUpdates == 3
\* Number of FTXUIContext objects ever allocated.
MaxCtx == 3
\* Number of native windows ever created.
MaxHandles == 2
\* Number of embedded_terminal calls in the runs that drive one terminal.
MaxTermOps == 3
\* Number of set_size / get_size calls in the size negotiation runs.
MaxSizeOps == 3
\* Length of the content strings handed to update_content.
MaxContentLen == 3

\* ---------------------------------------------------------- universes --
Editors == {"e1", "e2"}
NullEd == "nullptr"
EditorArgs == Editors \cup {NullEd}
Producers == {"p1", "p2"}
Params == {7}
CallerIds == {1, 2}
CtxIds == 1 .. MaxCtx
NullCtx == 0
NullHandle == 0
\* clap_window argument of set_parent: a window with an X11 handle, a window
\* whose x11 field is 0, or a null clap_window pointer.
WindowArgs == {"x11", "noHandle", "nullWindow"}
\* Pixel sizes the host submits to set_size.
PixelSizes == {<<640, 384>>, <<100, 50>>}
\* Pixel sizes of the size negotiation runs: below, inside and above the
\* clamping range, off the cell grid, and negative.
SizeWidths == {-9, 100, 327, 500, 640, 719, 960, 5000}
SizeHeights == {-17, 50, 175, 250, 384, 500, 640, 3000}
SizePixels == SizeWidths \X SizeHeights
Handles == 1 .. MaxHandles
Backends == {"linux", "windows"}
\* Heights (font->height) of the fonts a renderer may load.
FontHeights == {16, 20}
\* Window sizes handed to create_window and resize_window.
WindowSizes == {<<80, 10>>, <<80, 16>>, <<80, 40>>}
\* Characters of a content string.
Chars == {"a", "\n"}

\* Program constants.
DefaultCols == 80
DefaultRows == 24
CellW == 8
CellH == 16
PreferredCols == 80
PreferredRows == 24
MinCols == 40
MaxCols == 120
MinRows == 10
MaxRows == 40

VARIABLES
  \* --- ftxui-clap-support.cpp globals
  g_terminal,        \* NoTerminal or the global embedded_terminal
  g_active_editors,  \* sequence of editors (std::vector)
  g_render_joinable, \* g_render_thread.joinable()
  g_should_stop,     \* atomic<bool>
  g_parameter_queue, \* sequence of parameter_update
  g_parameter_mutex, \* "free", "render", or a holder name
  g_editors_mutex,   \* "free" or "render": holder of the active-editor-list mutex
  \* --- heap and editor objects
  ctxs,              \* CtxIds -> FTXUIContext cell
  edCtx,             \* editor->ctx : Editors -> CtxIds \cup {NullCtx}
  \* --- embedded-terminal-linux.cpp globals and the X server
  g_display,         \* BOOLEAN: g_display != nullptr
  g_renderers,       \* set of handles with a LinuxTerminalRenderer
  xwindows,          \* native windows existing in the X server
  renderer,          \* handle -> the renderer g_renderers maps the handle to
  xattrs,            \* handle -> attributes of the native window
  nextHandle,        \* next fresh window id
  \* --- caller threads
  callers,           \* set of caller thread ids of this run
  hosted,            \* editor arguments the host passes in this run
  hooks,             \* size hooks the editors of this run implement
  backend,           \* platform backend the library is built for
  fontHeight,        \* height of the font the renderers load
  pc,                \* CallerIds -> label
  arg,               \* CallerIds -> editor argument of the call in progress
  lctx,              \* CallerIds -> local `ctx` pointer of the call
  last,              \* CallerIds -> [op, ed, ret] of the call that returned last
  opsLeft,           \* calls the host may still issue
  \* --- render loop thread
  rpc,               \* label of the render loop thread, "none" when no thread
  rsnap,             \* local active_editors
  ridx,              \* position in rsnap
  rctx,              \* local ctx pointer
  rout,              \* local output string
  extraThreads,      \* render_loop threads started beyond the one tracked by rpc
  crashed,           \* the process was aborted (std::terminate, fault)
  \* --- producers and observation
  producers,         \* producer threads of this run
  params,            \* parameter ids the producers use in this run
  targets,           \* editor arguments the producers use in this run
  pushesLeft,        \* queue_parameter_update calls still to come
  nextSeq,           \* Producers -> next sequence tag
  nPushed,           \* number of accepted queue_parameter_update calls
  delivered,         \* sequence of updates handed to onParameterUpdate
  discarded          \* updates removed from the queue without delivery

vars == <<g_terminal, g_active_editors, g_render_joinable, g_should_stop,
          g_parameter_queue, g_parameter_mutex, g_editors_mutex, ctxs, edCtx,
          g_display, g_renderers, xwindows, renderer, xattrs, nextHandle,
          callers, hosted, hooks, backend, fontHeight, pc, arg, lctx, last,
          opsLeft, rpc, rsnap, ridx, rctx, rout, extraThreads, crashed, producers, params,
          targets, pushesLeft, nextSeq, nPushed, delivered, discarded>>

globalVars == <<g_terminal, g_active_editors, g_render_joinable, g_should_stop,
                g_editors_mutex>>
queueVars == <<g_parameter_queue, g_parameter_mutex>>
heapVars == <<ctxs, edCtx>>
platVars == <<g_display, g_renderers, xwindows, renderer, xattrs, nextHandle>>
callerVars == <<pc, arg, lctx, last, opsLeft>>
renderVars == <<rpc, rsnap, ridx, rctx, rout>>
runVars == <<callers, hosted, hooks, backend, fontHeight>>
obsVars == <<producers, params, targets, pushesLeft, nextSeq, nPushed, delivered, discarded>>

\* ------------------------------------------------ embedded_terminal ----
NoWin == [present |-> FALSE]
NoTerminal == [exists |-> FALSE]

\* struct editor_window
editor_window(content, handle, width, height, visible) ==
  [present |-> TRUE, content |-> content, platform_handle |-> handle,
   width |-> width, height |-> height, visible |-> visible]

\* A freshly constructed embedded_terminal: an empty editors_ map.
NewTerminal == [exists |-> TRUE, editors_ |-> [e \in Editors |-> NoWin]]

\* Handles of the records of terminal t that are not null.
HandlesOf(t) ==
  IF t.exists
    THEN {t.editors_[e].platform_handle :
            e \in {x \in Editors : t.editors_[x].present
                                   /\ t.editors_[x].platform_handle # NullHandle}}
    ELSE {}

\* The platform state as one record, so that backend functions are operators.
Plat == [display |-> g_display, renderers |-> g_renderers, windows |-> xwindows,
         renderer |-> renderer, attrs |-> xattrs]

\* No renderer under a handle, and no native window of that id.
NoRenderer == [width_ |-> 0, height_ |-> 0, char_height_ |-> 0, surface |-> <<>>]
NoAttrs == [width |-> 0, height |-> 0, mapped |-> FALSE]

\* embedded_terminal::platform_destroy_window on handle h.
platform_destroy_window(p, h) ==
  IF h # NullHandle /\ p.display
    THEN [p EXCEPT !.renderers = @ \ {h}, !.windows = @ \ {h},
                   !.renderer[h] = NoRenderer, !.attrs[h] = NoAttrs]
    ELSE p

\* embedded_terminal::platform_shutdown: drops every renderer and closes the
\* display; closing the connection destroys the windows it created.
platform_shutdown(p) ==
  [display |-> FALSE, renderers |-> {},
   windows |-> IF p.display THEN {} ELSE p.windows,
   renderer |-> [h \in Handles |-> NoRenderer],
   attrs |-> IF p.display THEN [h \in Handles |-> NoAttrs] ELSE p.attrs]

\* embedded_terminal::shutdown, as run by the destructor: destroys the
\* windows of every record, clears the map, shuts the platform down.
RECURSIVE DestroyAll(_, _)
DestroyAll(p, hs) ==
  IF hs = {} THEN p
  ELSE LET h == CHOOSE x \in hs : TRUE
       IN DestroyAll(platform_destroy_window(p, h), hs \ {h})

terminal_shutdown(p, t) ==
  IF t.exists THEN platform_shutdown(DestroyAll(p, HandlesOf(t))) ELSE p

\* embedded_terminal::remove_editor: the terminal afterwards.
remove_editor(t, id) ==
  IF t.editors_[id].present
    THEN [t EXCEPT !.editors_[id] = NoWin]
    ELSE t

\* embedded_terminal::remove_editor: the platform afterwards.
remove_editor_plat(p, t, id) ==
  IF t.editors_[id].present
    THEN platform_destroy_window(p, t.editors_[id].platform_handle)
    ELSE p

\* update_content through editors_[id], which makes a record for an
\* identifier the map does not hold.
update_content_inserting(t, id, content) ==
  IF t.editors_[id].present
    THEN [t EXCEPT !.editors_[id].content = content]
    ELSE [t EXCEPT !.editors_[id] = editor_window(content, NullHandle, 0, 0, FALSE)]

\* embedded_terminal::update_content: the terminal afterwards.
update_content(t, id, content) ==
  IF t.editors_[id].present
    THEN [t EXCEPT !.editors_[id].content = content]
    ELSE t

\* parse_terminal_content: std::getline until it fails.  A line ends at
\* "\n"; characters after the last "\n" are a line when there are any.
RECURSIVE GetLines(_, _, _)
GetLines(content, i, line) ==
  IF i > Len(content)
    THEN IF line = <<>> THEN <<>> ELSE <<line>>
    ELSE IF content[i] = "\n"
      THEN <<line>> \o GetLines(content, i + 1, <<>>)
      ELSE GetLines(content, i + 1, Append(line, content[i]))

\* The lines of a content string.  The string Screen::ToString makes of a
\* screen of cols x rows cells has one line of cols cells per row.
parse_terminal_content(content) ==
  IF Len(content) = 3 /\ content[1] = "frame"
    THEN [i \in 1 .. content[3] |-> <<"cells", content[2]>>]
    ELSE GetLines(content, 1, <<>>)

\* LinuxTerminalRenderer::render: clears the window, then draws line i (from
\* 1) at y_offset = i * char_height_ until y_offset > height_.
LinuxRender(r, content) ==
  LET lines == parse_terminal_content(content)
      drawn == {i \in 1 .. Len(lines) :
                  \A j \in 1 .. i : j * r.char_height_ <= r.height_}
  IN [r EXCEPT !.surface = SubSeq(lines, 1, Cardinality(drawn))]

\* WindowsTerminalRenderer::render: clears the target, then lays the whole
\* content out and draws the layout at (5, 5); there is no test of the
\* window height.
WindowsRender(r, content) ==
  [r EXCEPT !.surface = parse_terminal_content(content)]

\* The render of the backend the library is built for.
render(r, content) ==
  IF backend = "linux" THEN LinuxRender(r, content) ELSE WindowsRender(r, content)

\* embedded_terminal::platform_update_window for record win.
platform_update_window(p, win) ==
  IF win.platform_handle \in p.renderers
    THEN [p EXCEPT !.renderer[win.platform_handle] = render(@, win.content)]
    ELSE p

\* embedded_terminal::platform_resize_window: XResizeWindow and
\* renderer->resize(width, height).
platform_resize_window(p, h, width, height) ==
  IF h # NullHandle /\ p.display
    THEN LET p1 == IF h \in p.windows
                     THEN [p EXCEPT !.attrs[h].width = width,
                                    !.attrs[h].height = height]
                     ELSE p
         IN IF h \in p.renderers
              THEN [p1 EXCEPT !.renderer[h].width_ = width,
                              !.renderer[h].height_ = height]
              ELSE p1
    ELSE p

\* embedded_terminal::platform_show_window: XMapWindow or XUnmapWindow.
platform_show_window(p, h, visible) ==
  IF h # NullHandle /\ p.display /\ h \in p.windows
    THEN [p EXCEPT !.attrs[h].mapped = visible]
    ELSE p

\* embedded_terminal::update_content: the platform afterwards.
update_content_plat(p, t, id, content) ==
  IF t.editors_[id].present
    THEN platform_update_window(p, [t.editors_[id] EXCEPT !.content = content])
    ELSE p

\* embedded_terminal::resize_window: the terminal and the platform afterwards.
resize_window(t, id, width, height) ==
  IF t.editors_[id].present
    THEN [t EXCEPT !.editors_[id].width = width, !.editors_[id].height = height]
    ELSE t

resize_window_plat(p, t, id, width, height) ==
  IF t.editors_[id].present
    THEN platform_resize_window(p, t.editors_[id].platform_handle, width, height)
    ELSE p

\* embedded_terminal::show_window: the terminal and the platform afterwards.
show_window(t, id, visible) ==
  IF t.editors_[id].present
    THEN [t EXCEPT !.editors_[id].visible = visible]
    ELSE t

show_window_plat(p, t, id, visible) ==
  IF t.editors_[id].present
    THEN platform_show_window(p, t.editors_[id].platform_handle, visible)
    ELSE p

\* ------------------------------------------------------- FTXUIContext --
FreeCell == [state |-> "unallocated"]
FreedCell(ed) == [state |-> "freed", editor |-> ed]

\* FTXUIContext(ed): cols = 80, rows = 24, visible = false, no component,
\* no terminal.
NewContext(ed) ==
  [state |-> "live", editor |-> ed, component |-> FALSE,
   terminal |-> NoTerminal, cols |-> DefaultCols, rows |-> DefaultRows,
   visible |-> FALSE]

Live(c) == c # NullCtx /\ ctxs[c].state = "live"

\* The cell the next make_unique<FTXUIContext> returns.
FreshCtx == CHOOSE c \in CtxIds :
              /\ ctxs[c].state = "unallocated"
              /\ \A d \in CtxIds : d < c => ctxs[d].state # "unallocated"

HeapFull == \A c \in CtxIds : ctxs[c].state # "unallocated"

\* Output of Screen::Create(cols, rows) + Render + ToString for a component.
ScreenToString(cols, rows) == <<"frame", cols, rows>>
EmptyContent == <<>>

\* ----------------------------------------------------------- initial --
InitCommon ==
  /\ g_terminal = NoTerminal
  /\ g_active_editors = <<>>
  /\ g_render_joinable = FALSE
  /\ g_should_stop = FALSE
  /\ g_parameter_queue = <<>>
  /\ g_parameter_mutex = "free"
  /\ g_editors_mutex = "free"
  /\ ctxs = [c \in CtxIds |-> FreeCell]
  /\ edCtx = [e \in Editors |-> NullCtx]
  /\ g_display = FALSE
  /\ g_renderers = {}
  /\ xwindows = {}
  /\ renderer = [h \in Handles |-> NoRenderer]
  /\ xattrs = [h \in Handles |-> NoAttrs]
  /\ nextHandle = 1
  /\ pc = [t \in CallerIds |-> "idle"]
  /\ arg = [t \in CallerIds |-> NullEd]
  /\ lctx = [t \in CallerIds |-> NullCtx]
  /\ last = [t \in CallerIds |->
                [op |-> "none", ed |-> NullEd, ret |-> "none", in |-> <<>>, out |-> <<>>]]
  /\ rpc = "none"
  /\ rsnap = <<>>
  /\ ridx = 0
  /\ rctx = NullCtx
  /\ rout = EmptyContent
  /\ extraThreads = 0
  /\ crashed = FALSE
  /\ nextSeq = [p \in Producers |-> 1]
  /\ nPushed = 0
  /\ delivered = <<>>
  /\ discarded = {}

\* One host thread issuing the lifecycle calls, the render loop, producers.
Init ==
  /\ InitCommon
  /\ callers = {1}
  /\ hosted = EditorArgs
  /\ opsLeft = MaxOps
  /\ producers = {"p1"}
  /\ params = Params
  /\ targets = {"e1"}
  /\ pushesLeft = MaxPushes
  /\ hooks = {"default", "decline"}
  /\ backend = "linux"
  /\ fontHeight = 16

\* Several caller threads issuing the lifecycle calls concurrently.
InitMT ==
  /\ InitCommon
  /\ callers = {1, 2}
  /\ hosted = EditorArgs
  /\ opsLeft = MaxOpsMT
  /\ producers = {"p1"}
  /\ params = Params
  /\ targets = {"e1"}
  /\ pushesLeft = MaxPushes
  /\ hooks = {"default", "decline"}
  /\ backend = "linux"
  /\ fontHeight = 16

\* One host thread and few calls, many parameter updates.
InitQueue ==
  /\ InitCommon
  /\ callers = {1}
  /\ hosted = {"e1"}
  /\ opsLeft = MaxOpsQueue
  /\ producers = Producers
  /\ params = Params
  /\ targets = {"e1", NullEd}
  /\ pushesLeft = MaxUpdates
  /\ hooks = {"default", "decline"}
  /\ backend = "linux"
  /\ fontHeight = 16

\* ------------------------------------------------------ caller frame --
CanCall(t) == ~crashed /\ t \in callers /\ pc[t] = "idle" /\ opsLeft > 0
At(t, label) == ~crashed /\ t \in callers /\ pc[t] = label

\* The call starts: the host has one call less to issue.
Enter(t, e, label) ==
  /\ pc' = [pc EXCEPT ![t] = label]
  /\ arg' = [arg EXCEPT ![t] = e]
  /\ opsLeft' = opsLeft - 1
  /\ UNCHANGED <<lctx, last>>

\* A call that runs in one step, with arguments in besides the editor,
\* returns r and writes out into its reference parameters.
CompleteWith(t, op, e, r, in, out) ==
  /\ last' = [last EXCEPT ![t] =
                [op |-> op, ed |-> e, ret |-> r, in |-> in, out |-> out]]
  /\ opsLeft' = opsLeft - 1
  /\ UNCHANGED <<pc, arg, lctx>>

\* A call that runs in one step returns r.
Complete(t, op, e, r) == CompleteWith(t, op, e, r, <<>>, <<>>)

Goto(t, label) ==
  /\ pc' = [pc EXCEPT ![t] = label]
  /\ UNCHANGED <<arg, lctx, last, opsLeft>>

Return(t, op, r) ==
  /\ pc' = [pc EXCEPT ![t] = "idle"]
  /\ last' = [last EXCEPT ![t] =
                [op |-> op, ed |-> arg[t], ret |-> r, in |-> <<>>, out |-> <<>>]]
  /\ arg' = [arg EXCEPT ![t] = NullEd]
  /\ lctx' = [lctx EXCEPT ![t] = NullCtx]
  /\ UNCHANGED opsLeft

SetPlat(p) ==
  /\ g_display' = p.display
  /\ g_renderers' = p.renderers
  /\ xwindows' = p.windows
  /\ renderer' = p.renderer
  /\ xattrs' = p.attrs

\* Callers that will still allocate a context in their current call.
Allocating == {t \in callers : pc[t] \in {"cr_init", "cr_initTerm", "cr_initThread", "cr_ctx"}}
Allocated == {c \in CtxIds : ctxs[c].state # "unallocated"}

\* ------------------------------------------- ftxui_clap_guiCreateWith --
\* if (!editor) return false;  then initialize() begins.
CreateCall(t, e) ==
  /\ CanCall(t)
  /\ Cardinality(Allocated) + Cardinality(Allocating) < MaxCtx
  /\ IF e = NullEd
       THEN Complete(t, "create", e, "false")
       ELSE Enter(t, e, "cr_init")
  /\ UNCHANGED <<globalVars, queueVars, heapVars, platVars, runVars, renderVars,
                 extraThreads, crashed, obsVars>>

\* initialize(): if (g_terminal) return true;
InitializeCheck(t) ==
  /\ At(t, "cr_init")
  /\ Goto(t, IF g_terminal.exists THEN "cr_ctx" ELSE "cr_initTerm")
  /\ UNCHANGED <<globalVars, queueVars, heapVars, platVars, runVars, renderVars,
                 extraThreads, crashed, obsVars>>

\* embedded_terminal::platform_initialize: the display is opened when it is
\* not open yet, which the X server may refuse (opened = FALSE).
platform_initialize(p, opened) ==
  IF p.display THEN p ELSE [p EXCEPT !.display = opened]

\* initialize(): g_terminal = make_unique<embedded_terminal>(); a terminal
\* that g_terminal already holds is destroyed by the assignment.  Then
\* g_terminal->initialize(); on failure g_terminal.reset() and return false.
InitializeTerminal(t) ==
  /\ At(t, "cr_initTerm")
  /\ \E opened \in BOOLEAN :
       LET p0 == terminal_shutdown(Plat, g_terminal)
           p1 == platform_initialize(p0, opened)
       IN IF p1.display
            THEN /\ g_terminal' = NewTerminal
                 /\ SetPlat(p1)
                 /\ Goto(t, "cr_initThread")
            ELSE /\ g_terminal' = NoTerminal
                 /\ SetPlat(platform_shutdown(p1))
                 /\ Return(t, "create", "false")
  /\ UNCHANGED <<g_active_editors, g_render_joinable, g_should_stop, g_editors_mutex,
                 queueVars, heapVars, nextHandle, runVars, renderVars, extraThreads,
                 crashed, obsVars>>

\* initialize(): g_should_stop = false; g_render_thread = std::thread(render_loop);
\* the constructor may throw std::system_error (started = FALSE), which the
\* catch turns into return false; assigning to a joinable std::thread calls
\* std::terminate, after the second thread has been started.
InitializeThread(t) ==
  /\ At(t, "cr_initThread")
  /\ g_should_stop' = FALSE
  /\ \E started \in BOOLEAN :
       IF ~started
         THEN /\ Return(t, "create", "false")
              /\ UNCHANGED <<g_render_joinable, rpc, extraThreads, crashed>>
         ELSE IF g_render_joinable
           THEN /\ extraThreads' = extraThreads + 1
                /\ crashed' = TRUE
                /\ UNCHANGED <<g_render_joinable, rpc, callerVars>>
           ELSE /\ g_render_joinable' = TRUE
                /\ rpc' = "top"
                /\ Goto(t, "cr_ctx")
                /\ UNCHANGED <<extraThreads, crashed>>
  /\ UNCHANGED <<g_terminal, g_active_editors, g_editors_mutex, heapVars, platVars,
                 queueVars, runVars, rsnap, ridx, rctx, rout, obsVars>>

\* auto ctx = make_unique<FTXUIContext>(editor); editor->ctx = ctx.release();
CreateContext(t) ==
  /\ At(t, "cr_ctx")
  /\ ~HeapFull
  /\ ctxs' = [ctxs EXCEPT ![FreshCtx] = NewContext(arg[t])]
  /\ edCtx' = [edCtx EXCEPT ![arg[t]] = FreshCtx]
  /\ Goto(t, "cr_register")
  /\ UNCHANGED <<globalVars, queueVars, platVars, runVars, renderVars,
                 extraThreads, crashed, obsVars>>

\* register_editor: g_active_editors.push_back(editor), under g_editors_mutex.
register_editor(list, e) == Append(list, e)

CreateRegister(t) ==
  /\ At(t, "cr_register")
  /\ g_editors_mutex = "free"
  /\ g_active_editors' = register_editor(g_active_editors, arg[t])
  /\ Goto(t, "cr_component")
  /\ UNCHANGED <<g_terminal, g_render_joinable, g_should_stop, g_editors_mutex,
                 queueVars, heapVars, platVars, runVars, renderVars, extraThreads, crashed,
                 obsVars>>

\* editor->onGuiCreate(); context = editor->ctx;
\* context->component = editor->onCreateComponent(); return true.
\* The editor may hand back an empty Component (comp = FALSE).
CreateComponent(t) ==
  /\ At(t, "cr_component")
  /\ LET c == edCtx[arg[t]]
     IN IF Live(c)
          THEN /\ \E comp \in BOOLEAN :
                    ctxs' = [ctxs EXCEPT ![c].component = comp]
               /\ Return(t, "create", "true")
               /\ UNCHANGED crashed
          ELSE /\ crashed' = TRUE
               /\ UNCHANGED <<ctxs, callerVars>>
  /\ UNCHANGED <<globalVars, queueVars, edCtx, platVars, runVars, renderVars,
                 extraThreads, obsVars>>

\* ------------------------------------------ ftxui_clap_guiDestroyWith --
\* destroy testing the editor pointer alone.
DestroyCallWithoutCtxTest(t, e) ==
  /\ CanCall(t)
  /\ IF e = NullEd
       THEN Complete(t, "destroy", e, "void")
       ELSE Enter(t, e, "de_remove")
  /\ UNCHANGED <<globalVars, queueVars, heapVars, platVars, runVars, renderVars,
                 extraThreads, crashed, obsVars>>

\* if (!editor || !editor->ctx) return;  editor->onGuiDestroy();
DestroyCall(t, e) ==
  /\ CanCall(t)
  /\ IF e = NullEd \/ edCtx[e] = NullCtx
       THEN Complete(t, "destroy", e, "void")
       ELSE Enter(t, e, "de_remove")
  /\ UNCHANGED <<globalVars, queueVars, heapVars, platVars, runVars, renderVars,
                 extraThreads, crashed, obsVars>>

\* ctx = editor->ctx; if (ctx->terminal) ctx->terminal->remove_editor(id);
DestroyRemove(t) ==
  /\ At(t, "de_remove")
  /\ LET c == edCtx[arg[t]]
     IN IF Live(c)
          THEN /\ lctx' = [lctx EXCEPT ![t] = c]
               /\ pc' = [pc EXCEPT ![t] = "de_unreg"]
               /\ IF ctxs[c].terminal.exists
                    THEN /\ ctxs' = [ctxs EXCEPT ![c].terminal =
                                       remove_editor(@, arg[t])]
                         /\ SetPlat(remove_editor_plat(Plat, ctxs[c].terminal, arg[t]))
                    ELSE UNCHANGED <<ctxs, g_display, g_renderers, xwindows, renderer, xattrs>>
               /\ UNCHANGED <<arg, last, opsLeft, crashed>>
          ELSE /\ crashed' = TRUE
               /\ UNCHANGED <<ctxs, g_display, g_renderers, xwindows, renderer, xattrs,
                            callerVars>>
  /\ UNCHANGED <<globalVars, queueVars, edCtx, nextHandle, runVars, renderVars,
                 extraThreads, obsVars>>

\* std::remove without the erase: the kept elements move to the front and the
\* vector keeps its length.
unregister_without_erase(list, e) ==
  LET kept == SelectSeq(list, LAMBDA x : x # e)
  IN kept \o SubSeq(list, Len(kept) + 1, Len(list))

\* unregister_editor: erase(remove(begin, end, editor), end), under the mutex.
unregister_editor(list, e) == SelectSeq(list, LAMBDA x : x # e)

DestroyUnregister(t) ==
  /\ At(t, "de_unreg")
  /\ g_editors_mutex = "free"
  /\ g_active_editors' = unregister_editor(g_active_editors, arg[t])
  /\ Goto(t, "de_delete")
  /\ UNCHANGED <<g_terminal, g_render_joinable, g_should_stop, g_editors_mutex,
                 queueVars, heapVars, platVars, runVars, renderVars, extraThreads, crashed,
                 obsVars>>

\* delete ctx: ~FTXUIContext destroys ctx->terminal, whose destructor runs
\* embedded_terminal::shutdown and with it platform_shutdown.
DeleteContextPlat(p, cell) == terminal_shutdown(p, cell.terminal)

DestroyDelete(t) ==
  /\ At(t, "de_delete")
  /\ IF Live(lctx[t])
       THEN /\ SetPlat(DeleteContextPlat(Plat, ctxs[lctx[t]]))
            /\ ctxs' = [ctxs EXCEPT ![lctx[t]] = FreedCell(arg[t])]
            /\ Goto(t, "de_null")
            /\ UNCHANGED crashed
       ELSE /\ crashed' = TRUE
            /\ UNCHANGED <<ctxs, g_display, g_renderers, xwindows, renderer, xattrs,
                            callerVars>>
  /\ UNCHANGED <<globalVars, queueVars, edCtx, nextHandle, runVars, renderVars,
                 extraThreads, obsVars>>

\* editor->ctx = nullptr; return.
DestroyNull(t) ==
  /\ At(t, "de_null")
  /\ edCtx' = [edCtx EXCEPT ![arg[t]] = NullCtx]
  /\ Return(t, "destroy", "void")
  /\ UNCHANGED <<globalVars, queueVars, ctxs, platVars, runVars, renderVars,
                 extraThreads, crashed, obsVars>>

\* ---------------------------------------- ftxui_clap_guiSetParentWith --
\* embedded_terminal::platform_create_window: the platform afterwards.  The
\* X server may refuse the window (winOk = FALSE) and the renderer may fail
\* to initialize (rendOk = FALSE), in which case the window is destroyed.
platform_create_window_ok(p, winOk, rendOk) == p.display /\ winOk /\ rendOk

\* LinuxTerminalRenderer::initialize: width_ and height_ are the attributes
\* of the window, char_height_ is the height of the font.
RendererInitialize(attrs) ==
  [width_ |-> attrs.width, height_ |-> attrs.height,
   char_height_ |-> fontHeight, surface |-> <<>>]

platform_create_window(p, h, width, height, winOk, rendOk) ==
  IF platform_create_window_ok(p, winOk, rendOk)
    THEN LET attrs == [width |-> width, height |-> height, mapped |-> TRUE]
         IN [p EXCEPT !.renderers = @ \cup {h}, !.windows = @ \cup {h},
                      !.attrs[h] = attrs,
                      !.renderer[h] = RendererInitialize(attrs)]
    ELSE p

\* create_window storing the record before platform_create_window has
\* answered: a failed call leaves a record without a native window.
create_window_storing_first(t, p, id, h, width, height, winOk, rendOk) ==
  [t EXCEPT !.editors_[id] =
     editor_window(EmptyContent,
                   IF platform_create_window_ok(p, winOk, rendOk) THEN h ELSE NullHandle,
                   width, height, FALSE)]

\* embedded_terminal::create_window: the terminal afterwards; a record the
\* map already holds under id is replaced.
create_window(t, p, id, h, width, height, winOk, rendOk) ==
  IF platform_create_window_ok(p, winOk, rendOk)
    THEN [t EXCEPT !.editors_[id] =
            editor_window(EmptyContent, h, width, height, FALSE)]
    ELSE t

SetParentCall(t, e, w) ==
  /\ CanCall(t)
  /\ w = "x11" => nextHandle <= MaxHandles
  /\ IF e = NullEd \/ edCtx[e] = NullCtx \/ w = "nullWindow"
       THEN /\ Complete(t, "set_parent", e, "false")
            /\ UNCHANGED <<ctxs, platVars, crashed>>
       ELSE IF ~Live(edCtx[e])
         THEN /\ crashed' = TRUE
              /\ UNCHANGED <<ctxs, platVars, callerVars>>
         ELSE \E opened \in BOOLEAN, winOk \in BOOLEAN, rendOk \in BOOLEAN :
           LET c == edCtx[e]
               hadTerm == ctxs[c].terminal.exists
               t0 == IF hadTerm THEN ctxs[c].terminal ELSE NewTerminal
               \* if (!ctx->terminal) { make_unique; if (!initialize()) return false; }
               p1 == IF hadTerm THEN Plat ELSE platform_initialize(Plat, opened)
               initFailed == ~hadTerm /\ ~p1.display
               made == /\ ~initFailed
                       /\ w = "x11"
                       /\ platform_create_window_ok(p1, winOk, rendOk)
               t1 == IF initFailed \/ w # "x11" THEN t0
                     ELSE create_window(t0, p1, e, nextHandle, ctxs[c].cols * CellW,
                                        ctxs[c].rows * CellH, winOk, rendOk)
               p2 == IF initFailed \/ w # "x11" THEN p1
                     ELSE platform_create_window(p1, nextHandle, ctxs[c].cols * CellW,
                                                 ctxs[c].rows * CellH, winOk, rendOk)
           IN /\ ctxs' = [ctxs EXCEPT ![c].terminal = t1]
              /\ SetPlat(p2)
              /\ nextHandle' = IF made THEN nextHandle + 1 ELSE nextHandle
              /\ CompleteWith(t, "set_parent", e,
                              IF made THEN "true" ELSE "false", <<w>>, <<>>)
              /\ UNCHANGED crashed
  /\ UNCHANGED <<globalVars, queueVars, edCtx, runVars, renderVars, extraThreads,
                 obsVars>>

\* ------------------------------------------ ftxui_clap_guiSetSizeWith --
\* std::min(hi, v) alone: the lower bound is not applied.
ClampToUpper(v, lo, hi) == IF v > hi THEN hi ELSE v

\* std::max(lo, std::min(hi, v))
Clamp(v, lo, hi) == IF v < lo THEN lo ELSE IF v > hi THEN hi ELSE v

\* int / int of C++: the quotient is truncated towards zero.
IntDiv(a, b) == IF a >= 0 THEN a \div b ELSE -((-a) \div b)

\* What an editor that overrides a size hook writes into cols and rows.
OverrideSize == <<200, 5>>

\* The column/row pair set_size stores for a pixel size.  hook = "default":
\* the editor keeps ftxui_clap_editor::adjustSize, which clamps and returns
\* true; hook = "decline": adjustSize returns false and the default
\* getPreferredSize writes 80x24; hook = "adjust": the editor overrides
\* adjustSize, which writes its own pair and returns true; hook = "prefer":
\* adjustSize returns false and the overridden getPreferredSize writes the
\* editor's own pair.
SetSizeResult(width, height, hook) ==
  LET cols == Clamp(IntDiv(width, CellW), MinCols, MaxCols)
      rows == Clamp(IntDiv(height, CellH), MinRows, MaxRows)
  IN CASE hook = "default" ->
            <<Clamp(cols, MinCols, MaxCols), Clamp(rows, MinRows, MaxRows)>>
       [] hook = "decline" -> <<PreferredCols, PreferredRows>>
       [] hook \in {"adjust", "prefer"} -> OverrideSize

\* set_size that also resizes the editor's window to the pixel size of the
\* stored pair.
SetSizeCallResizing(t, e, px, hook) ==
  /\ CanCall(t)
  /\ IF e = NullEd \/ edCtx[e] = NullCtx
       THEN /\ Complete(t, "set_size", e, "false")
            /\ UNCHANGED <<ctxs, platVars, crashed>>
       ELSE IF ~Live(edCtx[e])
         THEN /\ crashed' = TRUE
              /\ UNCHANGED <<ctxs, platVars, callerVars>>
         ELSE LET c == edCtx[e]
                  size == SetSizeResult(px[1], px[2], hook)
                  term == ctxs[c].terminal
              IN /\ ctxs' = [ctxs EXCEPT
                       ![c].cols = size[1],
                       ![c].rows = size[2],
                       ![c].terminal =
                          IF term.exists
                            THEN resize_window(term, e, size[1] * CellW, size[2] * CellH)
                            ELSE term]
                 /\ IF term.exists
                      THEN SetPlat(resize_window_plat(Plat, term, e, size[1] * CellW,
                                                      size[2] * CellH))
                      ELSE UNCHANGED <<g_display, g_renderers, xwindows, renderer, xattrs>>
                 /\ UNCHANGED nextHandle
                 /\ CompleteWith(t, "set_size", e, "true", px, <<>>)
                 /\ UNCHANGED crashed
  /\ UNCHANGED <<globalVars, queueVars, edCtx, runVars, renderVars,
                 extraThreads, obsVars>>

SetSizeCall(t, e, px, hook) ==
  /\ CanCall(t)
  /\ IF e = NullEd \/ edCtx[e] = NullCtx
       THEN /\ Complete(t, "set_size", e, "false")
            /\ UNCHANGED <<ctxs, crashed>>
       ELSE IF ~Live(edCtx[e])
         THEN /\ crashed' = TRUE
              /\ UNCHANGED <<ctxs, callerVars>>
         ELSE /\ ctxs' = [ctxs EXCEPT
                   ![edCtx[e]].cols = SetSizeResult(px[1], px[2], hook)[1],
                   ![edCtx[e]].rows = SetSizeResult(px[1], px[2], hook)[2]]
              /\ CompleteWith(t, "set_size", e, "true", px, <<>>)
              /\ UNCHANGED crashed
  /\ UNCHANGED <<globalVars, queueVars, edCtx, platVars, runVars, renderVars,
                 extraThreads, obsVars>>

\* ----------------------------- ftxui_clap_guiShowWith / guiHideWith ----
\* show and hide that flip the flag instead of assigning it.
SetVisibleToggling(t, e, op, v) ==
  /\ CanCall(t)
  /\ IF e = NullEd \/ edCtx[e] = NullCtx
       THEN /\ Complete(t, op, e, "false")
            /\ UNCHANGED <<ctxs, crashed>>
       ELSE IF ~Live(edCtx[e])
         THEN /\ crashed' = TRUE
              /\ UNCHANGED <<ctxs, callerVars>>
         ELSE /\ ctxs' = [ctxs EXCEPT ![edCtx[e]].visible = ~@]
              /\ Complete(t, op, e, "true")
              /\ UNCHANGED crashed
  /\ UNCHANGED <<globalVars, queueVars, edCtx, platVars, runVars, renderVars,
                 extraThreads, obsVars>>

SetVisible(t, e, op, v) ==
  /\ CanCall(t)
  /\ IF e = NullEd \/ edCtx[e] = NullCtx
       THEN /\ Complete(t, op, e, "false")
            /\ UNCHANGED <<ctxs, crashed>>
       ELSE IF ~Live(edCtx[e])
         THEN /\ crashed' = TRUE
              /\ UNCHANGED <<ctxs, callerVars>>
         ELSE /\ ctxs' = [ctxs EXCEPT ![edCtx[e]].visible = v]
              /\ Complete(t, op, e, "true")
              /\ UNCHANGED crashed
  /\ UNCHANGED <<globalVars, queueVars, edCtx, platVars, runVars, renderVars,
                 extraThreads, obsVars>>

ShowCall(t, e) == SetVisible(t, e, "show", TRUE)
HideCall(t, e) == SetVisible(t, e, "hide", FALSE)

\* ------------------------------------------ ftxui_clap_guiGetSizeWith --
\* get_size reporting the pixel size of the cells plus a one-cell border.
GetSizeResultPadded(c) ==
  <<(ctxs[c].cols + 1) * CellW, (ctxs[c].rows + 1) * CellH>>

\* The pixel size get_size reports for a live context.
GetSizeResult(c) == <<ctxs[c].cols * CellW, ctxs[c].rows * CellH>>

GetSizeCall(t, e) ==
  /\ CanCall(t)
  /\ IF e = NullEd \/ edCtx[e] = NullCtx
       THEN /\ Complete(t, "get_size", e, "false")
            /\ UNCHANGED crashed
       ELSE IF ~Live(edCtx[e])
         THEN /\ crashed' = TRUE
              /\ UNCHANGED callerVars
         ELSE /\ CompleteWith(t, "get_size", e, "true", <<>>, GetSizeResult(edCtx[e]))
              /\ UNCHANGED crashed
  /\ UNCHANGED <<globalVars, queueVars, heapVars, platVars, runVars, renderVars,
                 extraThreads, obsVars>>

\* ------------------------------------------------------- shutdown() ----
\* g_should_stop = true;
ShutdownCall(t) ==
  /\ CanCall(t)
  /\ g_should_stop' = TRUE
  /\ Enter(t, NullEd, "sd_join")
  /\ UNCHANGED <<g_terminal, g_active_editors, g_render_joinable, g_editors_mutex,
                 queueVars, heapVars, platVars, runVars, renderVars, extraThreads, crashed,
                 obsVars>>

\* shutdown() going on to the teardown without joining the thread.
ShutdownWithoutJoin(t) ==
  /\ At(t, "sd_join")
  /\ Goto(t, "sd_clearList")
  /\ UNCHANGED <<globalVars, queueVars, heapVars, platVars, runVars, renderVars,
                 extraThreads, crashed, obsVars>>

\* if (g_render_thread.joinable()) g_render_thread.join();
\* join returns once render_loop has returned.
ShutdownJoin(t) ==
  /\ At(t, "sd_join")
  /\ IF g_render_joinable
       THEN /\ rpc = "exited"
            /\ rpc' = "none"
            /\ g_render_joinable' = FALSE
       ELSE UNCHANGED <<rpc, g_render_joinable>>
  /\ Goto(t, "sd_clearList")
  /\ UNCHANGED <<g_terminal, g_active_editors, g_should_stop, g_editors_mutex,
                 queueVars, heapVars, platVars, runVars, rsnap, ridx, rctx, rout, extraThreads,
                 crashed, obsVars>>

\* g_active_editors.clear(), under g_editors_mutex.
ShutdownClearList(t) ==
  /\ At(t, "sd_clearList")
  /\ g_editors_mutex = "free"
  /\ g_active_editors' = <<>>
  /\ Goto(t, "sd_clearQueue")
  /\ UNCHANGED <<g_terminal, g_render_joinable, g_should_stop, g_editors_mutex,
                 queueVars, heapVars, platVars, runVars, renderVars, extraThreads, crashed,
                 obsVars>>

Elems(q) == {q[i] : i \in 1 .. Len(q)}
Tags(q) == {q[i].tag : i \in 1 .. Len(q)}

\* while (!g_parameter_queue.empty()) g_parameter_queue.pop(), under g_parameter_mutex.
ShutdownClearQueue(t) ==
  /\ At(t, "sd_clearQueue")
  /\ g_parameter_mutex = "free"
  /\ g_parameter_queue' = <<>>
  /\ discarded' = discarded \cup Elems(g_parameter_queue)
  /\ Goto(t, "sd_reset")
  /\ UNCHANGED <<globalVars, g_parameter_mutex, heapVars, platVars, runVars,
                 renderVars, extraThreads, crashed, producers, params, targets,
                 pushesLeft, nextSeq, nPushed, delivered>>

\* g_terminal.reset(): the destructor of the global terminal runs
\* embedded_terminal::shutdown.
ShutdownReset(t) ==
  /\ At(t, "sd_reset")
  /\ SetPlat(terminal_shutdown(Plat, g_terminal))
  /\ g_terminal' = NoTerminal
  /\ Return(t, "shutdown", "void")
  /\ UNCHANGED <<g_active_editors, g_render_joinable, g_should_stop, g_editors_mutex,
                 queueVars, heapVars, nextHandle, runVars, renderVars, extraThreads, crashed,
                 obsVars>>

\* ----------------------------------------- queue_parameter_update ------
\* A producer pushes {param_id, value, editor} under g_parameter_mutex.  The
\* value is the producer's running tag; tag is the position in the order of
\* all pushes and is not part of the program's data.
QueueParameterUpdate(p, param, e) ==
  /\ ~crashed
  /\ p \in producers /\ param \in params /\ e \in targets
  /\ pushesLeft > 0
  /\ g_parameter_mutex = "free"
  /\ g_parameter_queue' = Append(g_parameter_queue,
        [param_id |-> param, value |-> nextSeq[p], editor |-> e,
         producer |-> p, tag |-> nPushed + 1])
  /\ nextSeq' = [nextSeq EXCEPT ![p] = @ + 1]
  /\ nPushed' = nPushed + 1
  /\ pushesLeft' = pushesLeft - 1
  /\ UNCHANGED <<globalVars, g_parameter_mutex, heapVars, platVars, runVars,
                 callerVars, renderVars, extraThreads, crashed, producers,
                 params, targets, delivered, discarded>>

\* ------------------------------------------------------ render_loop ----
Running == rpc \notin {"none", "exited"}
AtR(label) == ~crashed /\ rpc = label

\* while (!g_should_stop)
RenderTop ==
  /\ AtR("top")
  /\ rpc' = IF g_should_stop THEN "exited" ELSE "lock"
  /\ UNCHANGED <<globalVars, queueVars, heapVars, platVars, runVars, callerVars,
                 rsnap, ridx, rctx, rout, extraThreads, crashed, obsVars>>

\* std::lock_guard<std::mutex> lock(g_parameter_mutex);
RenderLock ==
  /\ AtR("lock")
  /\ g_parameter_mutex = "free"
  /\ g_parameter_mutex' = "render"
  /\ rpc' = "drain"
  /\ UNCHANGED <<globalVars, g_parameter_queue, heapVars, platVars, runVars,
                 callerVars, rsnap, ridx, rctx, rout, extraThreads, crashed,
                 obsVars>>

\* The callback invoked without the test of update.editor.
DeliverUnchecked(log, update) == Append(log, update)

\* The events onParameterUpdate is called for when the head of q is popped:
\* if (update.editor) update.editor->onParameterUpdate();
Deliver(log, update) ==
  IF update.editor # NullEd THEN Append(log, update) ELSE log

\* A pop that also drops the later updates to the parameter of the head.
PopCoalescing(q) ==
  SelectSeq(Tail(q), LAMBDA u : u.param_id # Head(q).param_id)

\* The queue after one turn of the drain loop: front() and pop().
Pop(q) == Tail(q)

\* The drain with the lock on g_parameter_mutex living to the end of the
\* iteration instead of the end of its block.
RenderDrainKeepingLock ==
  /\ AtR("drain")
  /\ IF g_parameter_queue # <<>>
       THEN /\ g_parameter_queue' = Pop(g_parameter_queue)
            /\ delivered' = Deliver(delivered, Head(g_parameter_queue))
            /\ discarded' = IF Head(g_parameter_queue).editor = NullEd
                              THEN discarded \cup {Head(g_parameter_queue)}
                              ELSE discarded
            /\ UNCHANGED <<g_parameter_mutex, rpc>>
       ELSE /\ rpc' = "snapshot"
            /\ UNCHANGED <<g_parameter_mutex, g_parameter_queue, delivered, discarded>>
  /\ UNCHANGED <<globalVars, heapVars, platVars, runVars, callerVars, rsnap,
                 ridx, rctx, rout, extraThreads, crashed, producers, params,
                 targets, pushesLeft, nextSeq, nPushed>>

\* while (!queue.empty()) { front; pop; callback }, and the end of the block
\* that releases the lock.
RenderDrain ==
  /\ AtR("drain")
  /\ IF g_parameter_queue # <<>>
       THEN /\ g_parameter_queue' = Pop(g_parameter_queue)
            /\ delivered' = Deliver(delivered, Head(g_parameter_queue))
            /\ discarded' = IF Head(g_parameter_queue).editor = NullEd
                              THEN discarded \cup {Head(g_parameter_queue)}
                              ELSE discarded
            /\ UNCHANGED <<g_parameter_mutex, rpc>>
       ELSE /\ g_parameter_mutex' = "free"
            /\ rpc' = "snapshot"
            /\ UNCHANGED <<g_parameter_queue, delivered, discarded>>
  /\ UNCHANGED <<globalVars, heapVars, platVars, runVars, callerVars, rsnap,
                 ridx, rctx, rout, extraThreads, crashed, producers, params,
                 targets, pushesLeft, nextSeq, nPushed>>

\* std::lock_guard<std::mutex> lock(g_editors_mutex);
RenderLockEditors ==
  /\ AtR("snapshot")
  /\ g_editors_mutex = "free"
  /\ g_editors_mutex' = "render"
  /\ rpc' = "copy"
  /\ UNCHANGED <<g_terminal, g_active_editors, g_render_joinable, g_should_stop,
                 queueVars, heapVars, platVars, runVars, callerVars, rsnap, ridx,
                 rctx, rout, extraThreads, crashed, obsVars>>

\* The copy of the list with the mutex still held when the rendering starts.
RenderSnapshotKeepingLock ==
  /\ AtR("copy")
  /\ rsnap' = g_active_editors
  /\ ridx' = 1
  /\ rpc' = "visit"
  /\ UNCHANGED <<globalVars, queueVars, heapVars, platVars, runVars, callerVars,
                 rctx, rout, extraThreads, crashed, obsVars>>

\* active_editors = g_active_editors; and the end of the block, which
\* releases g_editors_mutex.
RenderSnapshot ==
  /\ AtR("copy")
  /\ rsnap' = g_active_editors
  /\ ridx' = 1
  /\ rpc' = "visit"
  /\ g_editors_mutex' = "free"
  /\ UNCHANGED <<g_terminal, g_active_editors, g_render_joinable, g_should_stop,
                 queueVars, heapVars, platVars, runVars, callerVars, rctx, rout,
                 extraThreads, crashed, obsVars>>

\* The for loop with a test of g_should_stop before each editor.
RenderVisitCheckingStop ==
  /\ AtR("visit")
  /\ IF g_should_stop
       THEN /\ rpc' = "exited"
            /\ rsnap' = <<>>
            /\ ridx' = 0
            /\ UNCHANGED rctx
       ELSE IF ridx > Len(rsnap)
         THEN /\ rpc' = "sleep"
              /\ rsnap' = <<>>
              /\ ridx' = 0
              /\ UNCHANGED rctx
         ELSE IF edCtx[rsnap[ridx]] = NullCtx
           THEN /\ ridx' = ridx + 1
                /\ UNCHANGED <<rpc, rsnap, rctx>>
           ELSE /\ rctx' = edCtx[rsnap[ridx]]
                /\ rpc' = "check"
                /\ UNCHANGED <<rsnap, ridx>>
  /\ UNCHANGED <<globalVars, queueVars, heapVars, platVars, runVars, callerVars,
                 rout, extraThreads, crashed, obsVars>>

\* for (auto editor : active_editors) { if (!editor || !editor->ctx) continue;
\* ctx = editor->ctx;  The loop ends with the sleep.
RenderVisit ==
  /\ AtR("visit")
  /\ IF ridx > Len(rsnap)
       THEN /\ rpc' = "sleep"
            /\ rsnap' = <<>>
            /\ ridx' = 0
            /\ UNCHANGED rctx
       ELSE IF edCtx[rsnap[ridx]] = NullCtx
         THEN /\ ridx' = ridx + 1
              /\ UNCHANGED <<rpc, rsnap, rctx>>
         ELSE /\ rctx' = edCtx[rsnap[ridx]]
              /\ rpc' = "check"
              /\ UNCHANGED <<rsnap, ridx>>
  /\ UNCHANGED <<globalVars, queueVars, heapVars, platVars, runVars, callerVars,
                 rout, extraThreads, crashed, obsVars>>

\* The test of ctx->component alone.
CheckOutcomesIgnoringVisible(c) ==
  IF Live(c)
    THEN IF ctxs[c].component THEN {"render"} ELSE {"skip"}
    ELSE {"skip", "render", "fault"}

\* What the loop does after reading ctx->visible and ctx->component of cell
\* c.  Reading a freed cell is undefined: the loop may skip the editor, go on
\* to render it, or fault.
CheckOutcomes(c) ==
  IF Live(c)
    THEN IF ctxs[c].visible /\ ctxs[c].component THEN {"render"} ELSE {"skip"}
    ELSE {"skip", "render", "fault"}

\* if (ctx->visible && ctx->component)
RenderCheck ==
  /\ AtR("check")
  /\ \E o \in CheckOutcomes(rctx) :
       /\ rpc' = IF o = "render" THEN "render" ELSE "visit"
       /\ ridx' = IF o = "skip" THEN ridx + 1 ELSE ridx
       /\ rctx' = IF o = "render" THEN rctx ELSE NullCtx
       /\ crashed' = (o = "fault")
  /\ UNCHANGED <<globalVars, queueVars, heapVars, platVars, runVars, callerVars,
                 rsnap, rout, extraThreads, obsVars>>

\* The strings Screen::Create(ctx->cols, ctx->rows), Render and ToString can
\* produce for cell c; a freed cell yields anything or a fault.
RenderOutputs(c) ==
  IF Live(c)
    THEN {ScreenToString(ctxs[c].cols, ctxs[c].rows)}
    ELSE {ScreenToString(0, 0), <<"fault">>}

\* screen = Screen::Create(...); Render(screen, ctx->component->Render());
\* output = screen.ToString();
RenderScreen ==
  /\ AtR("render")
  /\ \E o \in RenderOutputs(rctx) :
       IF o = <<"fault">>
         THEN /\ crashed' = TRUE
              /\ UNCHANGED <<rpc, rout>>
         ELSE /\ rout' = o
              /\ rpc' = "update"
              /\ UNCHANGED crashed
  /\ UNCHANGED <<globalVars, queueVars, heapVars, platVars, runVars, callerVars,
                 rsnap, ridx, rctx, extraThreads, obsVars>>

\* The terminal the render loop hands the output of an editor to:
\* if (g_terminal) g_terminal->update_content(editor_id, output);
RenderTarget == g_terminal

RenderUpdate ==
  /\ AtR("update")
  /\ g_terminal' = IF RenderTarget.exists
                     THEN update_content(RenderTarget, rsnap[ridx], rout)
                     ELSE g_terminal
  /\ SetPlat(IF RenderTarget.exists
               THEN update_content_plat(Plat, RenderTarget, rsnap[ridx], rout)
               ELSE Plat)
  /\ rpc' = "visit"
  /\ ridx' = ridx + 1
  /\ rctx' = NullCtx
  /\ rout' = EmptyContent
  /\ UNCHANGED <<g_active_editors, g_render_joinable, g_should_stop, g_editors_mutex,
                 queueVars, heapVars, nextHandle, runVars, callerVars, rsnap,
                 extraThreads, crashed, obsVars>>

\* std::this_thread::sleep_for(16ms)
RenderSleep ==
  /\ AtR("sleep")
  /\ rpc' = "top"
  /\ UNCHANGED <<globalVars, queueVars, heapVars, platVars, runVars, callerVars,
                 rsnap, ridx, rctx, rout, extraThreads, crashed, obsVars>>

RenderStep ==
  \/ RenderTop
  \/ RenderLock
  \/ RenderDrain
  \/ RenderLockEditors
  \/ RenderSnapshot
  \/ RenderVisit
  \/ RenderCheck
  \/ RenderScreen
  \/ RenderUpdate
  \/ RenderSleep

\* ------------------------------------------------------ the program ----
HookChoices == {"default", "decline", "adjust", "prefer"}

CallerStep(t) ==
  \/ \E e \in hosted : CreateCall(t, e)
  \/ InitializeCheck(t)
  \/ InitializeTerminal(t)
  \/ InitializeThread(t)
  \/ CreateContext(t)
  \/ CreateRegister(t)
  \/ CreateComponent(t)
  \/ \E e \in hosted : DestroyCall(t, e)
  \/ DestroyRemove(t)
  \/ DestroyUnregister(t)
  \/ DestroyDelete(t)
  \/ DestroyNull(t)
  \/ \E e \in hosted, w \in WindowArgs : SetParentCall(t, e, w)
  \/ \E e \in hosted, px \in PixelSizes, h \in hooks : SetSizeCall(t, e, px, h)
  \/ \E e \in hosted : ShowCall(t, e)
  \/ \E e \in hosted : HideCall(t, e)
  \/ \E e \in hosted : GetSizeCall(t, e)
  \/ ShutdownCall(t)
  \/ ShutdownJoin(t)
  \/ ShutdownClearList(t)
  \/ ShutdownClearQueue(t)
  \/ ShutdownReset(t)

Next ==
  \/ \E t \in CallerIds : CallerStep(t)
  \/ \E p \in Producers, param \in Params, e \in EditorArgs :
       QueueParameterUpdate(p, param, e)
  \/ RenderStep

Spec == Init /\ [][Next]_vars

\* ------------------------------------------- the size negotiation ----
\* The host negotiates the size of editor e1 after ftxui_clap_guiCreateWith(e1)
\* has returned true: set_size with any pixel size, get_size, and set_size
\* with the size get_size has reported.  Each run has editors of one class,
\* that is one behaviour of the size hooks.
InitSize ==
  /\ g_terminal = NewTerminal
  /\ g_active_editors = <<"e1">>
  /\ g_render_joinable = TRUE
  /\ g_should_stop = FALSE
  /\ g_parameter_queue = <<>>
  /\ g_parameter_mutex = "free"
  /\ g_editors_mutex = "free"
  /\ ctxs = [c \in CtxIds |->
               IF c = 1 THEN [NewContext("e1") EXCEPT !.component = TRUE]
                        ELSE FreeCell]
  /\ edCtx = [e \in Editors |-> IF e = "e1" THEN 1 ELSE NullCtx]
  /\ g_display = TRUE
  /\ g_renderers = {}
  /\ xwindows = {}
  /\ renderer = [h \in Handles |-> NoRenderer]
  /\ xattrs = [h \in Handles |-> NoAttrs]
  /\ nextHandle = 1
  /\ callers = {1}
  /\ hosted = {"e1"}
  /\ hooks \in {{h} : h \in HookChoices}
  /\ backend = "linux"
  /\ fontHeight = 16
  /\ pc = [t \in CallerIds |-> "idle"]
  /\ arg = [t \in CallerIds |-> NullEd]
  /\ lctx = [t \in CallerIds |-> NullCtx]
  /\ last = [t \in CallerIds |->
                IF t = 1
                  THEN [op |-> "create", ed |-> "e1", ret |-> "true",
                        in |-> <<>>, out |-> <<>>]
                  ELSE [op |-> "none", ed |-> NullEd, ret |-> "none",
                        in |-> <<>>, out |-> <<>>]]
  /\ opsLeft = MaxSizeOps
  /\ rpc = "top"
  /\ rsnap = <<>>
  /\ ridx = 0
  /\ rctx = NullCtx
  /\ rout = EmptyContent
  /\ extraThreads = 0
  /\ crashed = FALSE
  /\ producers = {}
  /\ params = Params
  /\ targets = {}
  /\ pushesLeft = 0
  /\ nextSeq = [p \in Producers |-> 1]
  /\ nPushed = 0
  /\ delivered = <<>>
  /\ discarded = {}

\* The host hands the size get_size has just reported back to set_size.
SizeResubmit(t, e, hook) ==
  /\ last[t].op = "get_size"
  /\ last[t].ret = "true"
  /\ last[t].ed = e
  /\ SetSizeCall(t, e, last[t].out, hook)

NextSize ==
  \/ \E px \in SizePixels, h \in hooks : SetSizeCall(1, "e1", px, h)
  \/ GetSizeCall(1, "e1")
  \/ \E h \in hooks : SizeResubmit(1, "e1", h)

SpecSize == InitSize /\ [][NextSize]_vars

\* ------------------------------------- one embedded_terminal, driven ----
\* A client of the embedded_terminal class calls its public functions on a
\* terminal it has constructed and initialized.
Contents == UNION {[1 .. n -> Chars] : n \in 0 .. MaxContentLen}

InitTerminal ==
  /\ g_terminal = NewTerminal
  /\ g_active_editors = <<>>
  /\ g_render_joinable = FALSE
  /\ g_should_stop = FALSE
  /\ g_parameter_queue = <<>>
  /\ g_parameter_mutex = "free"
  /\ g_editors_mutex = "free"
  /\ ctxs = [c \in CtxIds |-> FreeCell]
  /\ edCtx = [e \in Editors |-> NullCtx]
  /\ g_display = TRUE
  /\ g_renderers = {}
  /\ xwindows = {}
  /\ renderer = [h \in Handles |-> NoRenderer]
  /\ xattrs = [h \in Handles |-> NoAttrs]
  /\ nextHandle = 1
  /\ callers = {1}
  /\ hosted = Editors
  /\ hooks = {"default"}
  /\ backend \in Backends
  /\ fontHeight \in FontHeights
  /\ pc = [t \in CallerIds |-> "idle"]
  /\ arg = [t \in CallerIds |-> NullEd]
  /\ lctx = [t \in CallerIds |-> NullCtx]
  /\ last = [t \in CallerIds |->
                [op |-> "none", ed |-> NullEd, ret |-> "none", in |-> <<>>, out |-> <<>>]]
  /\ opsLeft = MaxTermOps
  /\ rpc = "none"
  /\ rsnap = <<>>
  /\ ridx = 0
  /\ rctx = NullCtx
  /\ rout = EmptyContent
  /\ extraThreads = 0
  /\ crashed = FALSE
  /\ producers = {}
  /\ params = Params
  /\ targets = {}
  /\ pushesLeft = 0
  /\ nextSeq = [p \in Producers |-> 1]
  /\ nPushed = 0
  /\ delivered = <<>>
  /\ discarded = {}

\* What a call on the terminal leaves alone.
TermFrame ==
  UNCHANGED <<g_active_editors, g_render_joinable, g_should_stop, g_editors_mutex,
              queueVars, heapVars, runVars, renderVars, extraThreads, crashed,
              obsVars>>

\* g_terminal->create_window(id, parent, 0, 0, width, height)
TermCreateWindow(id, size) ==
  /\ CanCall(1)
  /\ g_terminal.exists
  /\ nextHandle <= MaxHandles
  /\ \E winOk \in BOOLEAN, rendOk \in BOOLEAN :
       /\ g_terminal' = create_window(g_terminal, Plat, id, nextHandle, size[1],
                                      size[2], winOk, rendOk)
       /\ SetPlat(platform_create_window(Plat, nextHandle, size[1], size[2],
                                         winOk, rendOk))
       /\ nextHandle' = IF platform_create_window_ok(Plat, winOk, rendOk)
                          THEN nextHandle + 1 ELSE nextHandle
       /\ CompleteWith(1, "create_window", id,
                       IF platform_create_window_ok(Plat, winOk, rendOk)
                         THEN "true" ELSE "false", size, <<>>)
  /\ TermFrame

\* g_terminal->update_content(id, content)
TermUpdateContent(id, content) ==
  /\ CanCall(1)
  /\ g_terminal.exists
  /\ g_terminal' = update_content(g_terminal, id, content)
  /\ SetPlat(update_content_plat(Plat, g_terminal, id, content))
  /\ CompleteWith(1, "update_content", id, "void", content, <<>>)
  /\ UNCHANGED nextHandle
  /\ TermFrame

\* g_terminal->resize_window(id, width, height)
TermResizeWindow(id, size) ==
  /\ CanCall(1)
  /\ g_terminal.exists
  /\ g_terminal' = resize_window(g_terminal, id, size[1], size[2])
  /\ SetPlat(resize_window_plat(Plat, g_terminal, id, size[1], size[2]))
  /\ CompleteWith(1, "resize_window", id, "void", size, <<>>)
  /\ UNCHANGED nextHandle
  /\ TermFrame

\* g_terminal->show_window(id, visible)
TermShowWindow(id, visible) ==
  /\ CanCall(1)
  /\ g_terminal.exists
  /\ g_terminal' = show_window(g_terminal, id, visible)
  /\ SetPlat(show_window_plat(Plat, g_terminal, id, visible))
  /\ CompleteWith(1, "show_window", id, "void", <<visible>>, <<>>)
  /\ UNCHANGED nextHandle
  /\ TermFrame

\* g_terminal->remove_editor(id)
TermRemoveEditor(id) ==
  /\ CanCall(1)
  /\ g_terminal.exists
  /\ g_terminal' = remove_editor(g_terminal, id)
  /\ SetPlat(remove_editor_plat(Plat, g_terminal, id))
  /\ Complete(1, "remove_editor", id, "void")
  /\ UNCHANGED nextHandle
  /\ TermFrame

NextTerminal ==
  \/ \E id \in Editors, size \in WindowSizes : TermCreateWindow(id, size)
  \/ \E id \in Editors, content \in Contents : TermUpdateContent(id, content)
  \/ \E id \in Editors, size \in WindowSizes : TermResizeWindow(id, size)
  \/ \E id \in Editors, visible \in BOOLEAN : TermShowWindow(id, visible)
  \/ \E id \in Editors : TermRemoveEditor(id)

SpecTerminal == InitTerminal /\ [][NextTerminal]_vars
SpecMT == InitMT /\ [][Next]_vars

\* The scheduler runs the render loop thread whenever it can take a step,
\* and a caller that waits for a mutex gets it: every holder releases it
\* within its block, and the render loop sleeps 16 ms in each iteration
\* with no mutex held.
SpecFair ==
  /\ Init
  /\ [][Next]_vars
  /\ WF_vars(RenderStep)
  /\ \A t \in CallerIds : SF_vars(CallerStep(t))
SpecQueue == InitQueue /\ [][Next]_vars

\* ============================================================ claims ====
Range(seq) == {seq[i] : i \in 1 .. Len(seq)}

\* Every embedded_terminal object that exists: the global one and the one of
\* each live context (a context no editor points to any more included).
Terminals ==
  {g_terminal} \cup {ctxs[c].terminal : c \in {d \in CtxIds : ctxs[d].state = "live"}}

\* Some terminal holds a window record under the identifier of editor e.
RecordExists(e) == \E t \in Terminals : t.exists /\ t.editors_[e].present

\* A context of e that editor->ctx no longer points to although it was never
\* destroyed: left behind by a create call on an editor that had a context.
Orphaned(e) ==
  \E c \in CtxIds : ctxs[c].state = "live" /\ ctxs[c].editor = e /\ edCtx[e] # c

Returned(t, op, e) == pc[t] = "idle" /\ last[t].op = op /\ last[t].ed = e

\* C1: when ftxui_clap_guiDestroyWith(e) has returned, for an editor whose
\* context came from one create (set_parent, set_size, show, hide in
\* between or not), e is not in the active-editor list, no terminal holds a
\* window record under e's identifier, and editor->ctx is null.
C1_DestroyLeavesNothing ==
  \A t \in callers, e \in Editors :
    (Returned(t, "destroy", e) /\ ~Orphaned(e)) =>
      /\ e \notin Range(g_active_editors)
      /\ ~RecordExists(e)
      /\ edCtx[e] = NullCtx

\* A destroy of e1 has returned after create and a set_parent that made a
\* window.
C1_Witness ==
  /\ Returned(1, "destroy", "e1")
  /\ \E c \in CtxIds : ctxs[c] = FreedCell("e1")
  /\ nextHandle > 1
  /\ ~Orphaned("e1")

\* C2: the render loop never reads a context (visible, component, cols,
\* rows) after that context has been freed: each step in which it reads
\* through its ctx pointer finds the context live.
C2_RenderReadsLiveContext ==
  [][(rpc \in {"check", "render"} /\ rpc' # rpc) => Live(rctx)]_vars

\* The window record the context of editor e holds for e, if any.
HasWindow(e) ==
  /\ Live(edCtx[e])
  /\ ctxs[edCtx[e]].terminal.exists
  /\ ctxs[edCtx[e]].terminal.editors_[e].present

WindowContent(e) == ctxs[edCtx[e]].terminal.editors_[e].content

\* C3: each time the render loop has rendered an editor that is registered,
\* shown, has a UI root and has a window attached by set_parent, the content
\* of the editor's window record is overwritten with that render, so every
\* such editor is refreshed once per loop iteration.
C3_RenderReachesWindow ==
  [][\A e \in Editors :
       (rpc = "update" /\ rpc' = "visit" /\ rsnap[ridx] = e /\ HasWindow(e))
         => (HasWindow(e)' /\ WindowContent(e)' = rout)]_vars

DeliveredTags == {delivered[i].tag : i \in 1 .. Len(delivered)}
DiscardedTags == {u.tag : u \in discarded}

\* C4: onParameterUpdate deliveries follow the order in which the updates
\* entered the queue: no update is delivered twice, each producer's updates
\* are delivered in its push order, and every update that left the queue
\* other than by being discarded was delivered on its own (no coalescing).
C4_FifoDelivery ==
  /\ \A i, j \in 1 .. Len(delivered) :
       i < j => delivered[i].tag < delivered[j].tag
  /\ \A i, j \in 1 .. Len(delivered) :
       (i < j /\ delivered[i].producer = delivered[j].producer)
         => delivered[i].value < delivered[j].value
  /\ \A k \in 1 .. nPushed :
       (k \notin Tags(g_parameter_queue) /\ k \notin DiscardedTags)
         => k \in DeliveredTags
  /\ \A i \in 1 .. Len(delivered) : delivered[i].editor # NullEd

\* Three updates of two producers to the same parameter have been delivered.
C4_Witness ==
  /\ Len(delivered) = 3
  /\ \E i, j \in 1 .. 3 : delivered[i].producer # delivered[j].producer
  /\ \E i, j \in 1 .. 3 : /\ i # j
                          /\ delivered[i].producer = delivered[j].producer
                          /\ delivered[i].param_id = delivered[j].param_id

C6_ShutdownJoinsFirst ==
  \A t \in callers :
    /\ pc[t] \in {"sd_join", "sd_clearList", "sd_clearQueue", "sd_reset"}
         => g_should_stop
    /\ pc[t] \in {"sd_clearList", "sd_clearQueue", "sd_reset"}
         => (rpc = "none" /\ ~g_render_joinable)
    /\ (pc[t] = "idle" /\ last[t].op = "shutdown")
         => /\ rpc = "none"
            /\ ~g_render_joinable
            /\ g_active_editors = <<>>
            /\ ~g_terminal.exists

\* shutdown() has returned after a create had set up an editor.
C6_Witness ==
  /\ pc[1] = "idle"
  /\ last[1].op = "shutdown"
  /\ Allocated # {}
  /\ g_should_stop

\* C7: a window record with a non-null native handle, in whatever terminal,
\* implies that the display connection is open and that the renderer of
\* the handle exists.
C7_NoRecordOutlivesBackend ==
  \A t \in Terminals : \A e \in Editors :
    (t.exists /\ t.editors_[e].present
       /\ t.editors_[e].platform_handle # NullHandle)
      => (g_display /\ t.editors_[e].platform_handle \in g_renderers)

\* C8: the display connection is released (platform_shutdown) only in steps
\* taken while no render loop thread is running.
C8_TeardownAfterRenderLoop ==
  [][(g_display /\ ~g_display') => ~Running]_vars

\* C9: at most one render loop thread exists at any time, whatever the number
\* of create calls and caller threads.
C9_SingleRenderThread == extraThreads = 0

\* C10: the active-editor list holds each editor at most once and each editor
\* has at most one live context.
C10_OneContextPerEditor ==
  /\ \A i, j \in 1 .. Len(g_active_editors) :
       g_active_editors[i] = g_active_editors[j] => i = j
  /\ \A e \in Editors :
       Cardinality({c \in CtxIds : ctxs[c].state = "live" /\ ctxs[c].editor = e}) <= 1

\* C11: update_content, resize_window, show_window and remove_editor called
\* with an identifier the terminal holds no record for change neither the
\* map of records, nor any record, nor anything of the platform (renderers,
\* native windows, display), each time they are called.
C11_UnknownIdIsNoOp ==
  [][\A id \in Editors :
       (/\ opsLeft' < opsLeft
        /\ last'[1].op \in {"update_content", "resize_window", "show_window",
                             "remove_editor"}
        /\ last'[1].ed = id
        /\ g_terminal.exists
        /\ ~g_terminal.editors_[id].present)
         => (g_terminal' = g_terminal /\ UNCHANGED platVars)]_vars

\* resize_window was called for e2, which has no record, on a terminal that
\* holds a record with content for e1.
C11_Witness ==
  /\ last[1].op = "resize_window"
  /\ last[1].ed = "e2"
  /\ g_terminal.exists
  /\ ~g_terminal.editors_["e2"].present
  /\ g_terminal.editors_["e1"].present
  /\ g_terminal.editors_["e1"].content # <<>>

\* C12: the column/row pair of every context is within 40..120 x 10..40,
\* whatever the pixel size given to set_size, whatever adjustSize returns
\* and whatever the hooks write.
C12_StoredSizeWithinBounds ==
  \A c \in CtxIds :
    ctxs[c].state = "live" =>
      /\ MinCols <= ctxs[c].cols /\ ctxs[c].cols <= MaxCols
      /\ MinRows <= ctxs[c].rows /\ ctxs[c].rows <= MaxRows

Clamped(v, lo, hi) == IF v < lo THEN lo ELSE IF v > hi THEN hi ELSE v

\* C14: for editors with the default size hooks, set_size(width, height)
\* stores cols = clamp(width div 8, 40, 120) and rows = clamp(height div 16,
\* 10, 40); get_size reports (cols * 8, rows * 16); the first get_size on a
\* new editor reports 640 x 384; set_size(640, 384) stores 80 x 24 and
\* set_size(100, 50) stores 40 columns.
C14_DefaultHooksSize ==
  \A t \in callers, e \in Editors :
    (hooks = {"default"} /\ Live(edCtx[e]) /\ pc[t] = "idle" /\ last[t].ed = e
       /\ last[t].ret = "true") =>
      /\ last[t].op = "set_size" =>
            /\ ctxs[edCtx[e]].cols = Clamped(last[t].in[1] \div 8, 40, 120)
            /\ ctxs[edCtx[e]].rows = Clamped(last[t].in[2] \div 16, 10, 40)
            /\ last[t].in = <<640, 384>> =>
                  (ctxs[edCtx[e]].cols = 80 /\ ctxs[edCtx[e]].rows = 24)
            /\ last[t].in = <<100, 50>> => ctxs[edCtx[e]].cols = 40
      /\ last[t].op = "get_size" =>
            /\ last[t].out = <<ctxs[edCtx[e]].cols * 8, ctxs[edCtx[e]].rows * 16>>
            /\ opsLeft = MaxSizeOps - 1 => last[t].out = <<640, 384>>

\* set_size(100, 50) has returned for an editor with the default hooks, and
\* a get_size has reported before it.
C14_Witness ==
  /\ hooks = {"default"}
  /\ Returned(1, "set_size", "e1")
  /\ last[1].in = <<100, 50>>
  /\ ctxs[1].cols = 40
  /\ opsLeft = MaxSizeOps - 2

\* A step of the render loop thread: no caller and no producer moves.
RenderLoopStep == pc' = pc /\ opsLeft' = opsLeft /\ pushesLeft' = pushesLeft

\* C15: the render loop goes on to render a context only when it finds the
\* context visible and with a UI root, and no step of the render loop
\* changes the content of the window record of an editor whose visible flag
\* is false.
C15_HiddenEditorNotRendered ==
  [][/\ (rpc = "check" /\ rpc' = "render" /\ Live(rctx))
          => (ctxs[rctx].visible /\ ctxs[rctx].component)
     /\ \A e \in Editors :
          (HasWindow(e) /\ ~ctxs[edCtx[e]].visible /\ RenderLoopStep)
            => (HasWindow(e)' /\ WindowContent(e)' = WindowContent(e))]_vars

\* The render loop has examined e1, which has a UI root and a window and
\* was never shown, and has passed on.
C15_Witness ==
  /\ rpc = "visit"
  /\ rsnap = <<"e1">>
  /\ ridx = 2
  /\ HasWindow("e1")
  /\ ctxs[edCtx["e1"]].component
  /\ ~ctxs[edCtx["e1"]].visible

\* The step in which a call of ftxui_clap_guiCreateWith by t returns false.
CreateReturnsFalse(t) ==
  /\ pc'[t] = "idle"
  /\ last'[t].op = "create"
  /\ last'[t].ret = "false"
  /\ \/ pc[t] \in {"cr_initTerm", "cr_initThread"}
     \/ pc[t] = "idle" /\ opsLeft' < opsLeft

\* C16: a call of ftxui_clap_guiCreateWith that returns false has allocated no
\* context, has not touched editor->ctx nor the active-editor list, has set
\* no UI root, and, when it is the call that ran the initialization, leaves
\* no global terminal and no render loop thread.
C16_FailedCreateLeavesNothing ==
  [][\A t \in callers :
       CreateReturnsFalse(t) =>
         /\ UNCHANGED <<ctxs, edCtx, g_active_editors>>
         /\ pc[t] # "idle" =>
              (~g_terminal'.exists /\ ~g_render_joinable' /\ rpc' = "none")]_vars

\* The window records that hold handle h: pairs of the owner of a terminal
\* (NullCtx for g_terminal, else the context) and an identifier.
RecordsOf(h) ==
  {r \in ({NullCtx} \cup {c \in CtxIds : ctxs[c].state = "live"}) \X Editors :
     LET t == IF r[1] = NullCtx THEN g_terminal ELSE ctxs[r[1]].terminal
     IN t.exists /\ t.editors_[r[2]].present /\ t.editors_[r[2]].platform_handle = h}

\* C17: every native window that exists, and every renderer, belongs to
\* exactly one window record: a handle is released no later than the moment
\* its record leaves the map, also when create_window replaces a record.
C17_HandleOwnedByOneRecord ==
  \A h \in xwindows \cup g_renderers : Cardinality(RecordsOf(h)) = 1

Min(a, b) == IF a < b THEN a ELSE b

\* C18: when update_content has had the renderer of a window draw a content
\* of n lines, the surface holds exactly the first min(n, k) lines, k being
\* the number of lines of the font's height that fit the window height, and
\* nothing for an empty content; on every backend.
C18_RenderDrawsFirstLines ==
  \A id \in Editors :
    (/\ last[1].op = "update_content"
     /\ last[1].ed = id
     /\ g_terminal.exists
     /\ g_terminal.editors_[id].present
     /\ g_terminal.editors_[id].platform_handle \in g_renderers) =>
      LET r == renderer[g_terminal.editors_[id].platform_handle]
          lines == parse_terminal_content(last[1].in)
          k == r.height_ \div r.char_height_
      IN /\ r.surface = SubSeq(lines, 1, Min(Len(lines), k))
         /\ last[1].in = <<>> => r.surface = <<>>

\* C19: while onParameterUpdate runs for an update popped by the drain, the
\* render loop does not hold g_parameter_mutex.
C19_CallbackRunsUnlocked ==
  [][Len(delivered') > Len(delivered) => g_parameter_mutex # "render"]_vars

\* C20: the render loop holds g_editors_mutex only while it copies the list:
\* the mutex is free whenever the loop examines a context, renders a UI root
\* or calls update_content.
C20_RenderWithoutListLock ==
  /\ rpc \in {"visit", "check", "render", "update", "sleep"} => g_editors_mutex = "free"
  /\ g_editors_mutex = "render" => rpc = "copy"

\* The render loop renders e1 while destroy(e1) is about to unregister it.
C20_Witness ==
  /\ rpc = "render"
  /\ pc[1] = "de_unreg"
  /\ g_editors_mutex = "free"

\* C21: the render loop thread leaves the loop only at the test of
\* g_should_stop at the top of an iteration; with the flag set it does not
\* begin another iteration; an iteration under way finishes the drain and
\* visits every snapshotted editor; and once the flag is set the thread
\* ends (unless the process has aborted).
C21_StopSeenAtIterationBoundary ==
  /\ [][/\ (rpc' = "exited" /\ rpc # "exited") => (rpc = "top" /\ g_should_stop)
        /\ (rpc = "top" /\ rpc' = "lock") => ~g_should_stop
        /\ (rpc = "drain" /\ rpc' = "snapshot") => g_parameter_queue = <<>>
        /\ (rpc = "visit" /\ rpc' = "sleep") => ridx > Len(rsnap)]_vars
  /\ (g_should_stop ~> (~Running \/ crashed))

\* shutdown() has set the flag and waits in join while the loop is about to
\* hand a render of e1 to update_content.
C21_Witness ==
  /\ g_should_stop
  /\ pc[1] = "sd_join"
  /\ rpc = "update"
  /\ rsnap = <<"e1">>

\* The records of the map of terminal t; a terminal that does not exist
\* holds none.
RecordsMap(t) == IF t.exists THEN t.editors_ ELSE NewTerminal.editors_

\* C22: a set_parent call that reaches embedded_terminal::create_window
\* either succeeds entirely (it returns true and the map holds a record for
\* the editor with a new native window and its renderer) or unwinds
\* entirely: it returns false, the map of the context's terminal is what it
\* was before the call, and no native window, renderer or window attribute
\* has been added or changed.
C22_FailedCreateWindowUnwinds ==
  [][\A t \in CallerIds, e \in Editors :
       LET c == edCtx[e]
       IN (/\ pc[t] = "idle" /\ pc'[t] = "idle" /\ opsLeft' < opsLeft
           /\ last'[t].op = "set_parent" /\ last'[t].ed = e
           /\ last'[t].in = <<"x11">>
           /\ Live(c)
           /\ (ctxs[c].terminal.exists \/ g_display'))
          => \/ /\ last'[t].ret = "true"
                /\ RecordsMap(ctxs'[c].terminal)[e].present
                /\ RecordsMap(ctxs'[c].terminal)[e].platform_handle \in xwindows' \ xwindows
                /\ RecordsMap(ctxs'[c].terminal)[e].platform_handle \in g_renderers' \ g_renderers
             \/ /\ last'[t].ret = "false"
                /\ RecordsMap(ctxs'[c].terminal) = RecordsMap(ctxs[c].terminal)
                /\ UNCHANGED <<g_renderers, xwindows, renderer, xattrs, g_terminal>>]_vars

\* set_parent(e1, x11) has returned false with the display open, and the
\* record an earlier set_parent made for e1 is still there with its window.
C22_Witness ==
  /\ Returned(1, "set_parent", "e1")
  /\ last[1].ret = "false"
  /\ last[1].in = <<"x11">>
  /\ g_display
  /\ HasWindow("e1")
  /\ ctxs[edCtx["e1"]].terminal.editors_["e1"].platform_handle \in xwindows

\* C23: a ftxui_clap_guiSetSizeWith call that returns true changes nothing
\* but the cols and rows of the editor's context: the window records of
\* every terminal, the context's visible flag and UI root, the
\* active-editor list, the parameter queue and the platform (windows,
\* renderers, attributes, display) are what they were.
C23_SetSizeChangesOnlyColsRows ==
  [][\A t \in CallerIds, e \in Editors :
       LET c == edCtx[e]
       IN (/\ pc[t] = "idle" /\ pc'[t] = "idle" /\ opsLeft' < opsLeft
           /\ last'[t].op = "set_size" /\ last'[t].ed = e
           /\ last'[t].ret = "true")
          => /\ Live(c)
             /\ ctxs' = [ctxs EXCEPT ![c].cols = ctxs'[c].cols,
                                      ![c].rows = ctxs'[c].rows]
             /\ UNCHANGED <<g_terminal, g_active_editors, g_parameter_queue, edCtx,
                            platVars, delivered, discarded>>]_vars

\* set_size(e1, 100x50) has returned true and stored 40x10, while the
\* window record of e1 and its native window keep the 640x384 pixels they
\* were created with.
C23_Witness ==
  /\ Returned(1, "set_size", "e1")
  /\ last[1].ret = "true"
  /\ last[1].in = <<100, 50>>
  /\ HasWindow("e1")
  /\ ctxs[edCtx["e1"]].cols = MinCols
  /\ ctxs[edCtx["e1"]].rows = MinRows
  /\ ctxs[edCtx["e1"]].terminal.editors_["e1"].width = DefaultCols * CellW
  /\ ctxs[edCtx["e1"]].terminal.editors_["e1"].height = DefaultRows * CellH

\* C24: a show call on an editor with a context returns true and leaves
\* the context's visible flag true, a hide call returns true and leaves it
\* false; nothing else of any context changes (cols, rows, UI root,
\* terminal records), nor do the global terminal, the active-editor list,
\* the queue or the platform, and the call renders nothing.  A call that
\* finds the flag already at its value therefore leaves the contexts as
\* they were.
C24_ShowHideSetOnlyTheFlag ==
  [][\A t \in CallerIds, e \in Editors :
       LET c == edCtx[e]
       IN (/\ pc[t] = "idle" /\ pc'[t] = "idle" /\ opsLeft' < opsLeft
           /\ last'[t].op \in {"show", "hide"} /\ last'[t].ed = e
           /\ Live(c))
          => /\ last'[t].ret = "true"
             /\ ctxs' = [ctxs EXCEPT ![c].visible = (last'[t].op = "show")]
             /\ (ctxs[c].visible = (last'[t].op = "show")) => ctxs' = ctxs
             /\ UNCHANGED <<g_terminal, g_active_editors, g_parameter_queue, edCtx,
                            platVars, renderVars, delivered, discarded>>]_vars

\* show(e1) has returned true on an editor whose window set_parent made:
\* the context's flag is set, and the window record keeps its geometry and
\* its own visible field.
C24_Witness ==
  /\ Returned(1, "show", "e1")
  /\ last[1].ret = "true"
  /\ HasWindow("e1")
  /\ ctxs[edCtx["e1"]].visible
  /\ ~ctxs[edCtx["e1"]].terminal.editors_["e1"].visible
  /\ ctxs[edCtx["e1"]].terminal.editors_["e1"].width = DefaultCols * CellW

\* ftxui_clap_guiDestroyWith(e) has returned and e has not been given a new
\* context since: some context of e was freed and editor->ctx is null.
Destroyed(e) ==
  /\ edCtx[e] = NullCtx
  /\ \E c \in CtxIds : ctxs[c] = FreedCell(e)
  /\ \A t \in callers : arg[t] # e

\* C25: the render loop never calls onParameterUpdate of an editor whose
\* destroy has returned, updates queued before the destroy included.
C25_NoCallbackAfterDestroy ==
  [][\A e \in Editors :
       (/\ Len(delivered') = Len(delivered) + 1
        /\ delivered'[Len(delivered')].editor = e)
       => ~Destroyed(e)]_vars

\* C26: no thread holds two mutexes: the render loop never holds
\* g_parameter_mutex and g_editors_mutex together and holds neither when it
\* calls into the terminal registry (update_content locks the registry's
\* mutex), and so, with fair scheduling, no caller stays inside a call for
\* ever (every call gets the mutexes it asks for and returns) and the
\* render loop does not stay at a lock for ever, unless the process has
\* aborted.
C26_LockDisciplineDeadlockFree ==
  /\ [](~(g_parameter_mutex # "free" /\ g_editors_mutex # "free"))
  /\ [](rpc \in {"render", "update"} =>
          (g_parameter_mutex = "free" /\ g_editors_mutex = "free"))
  /\ \A t \in CallerIds : []<>(pc[t] = "idle" \/ crashed)
  /\ []<>(rpc \notin {"lock", "snapshot"} \/ crashed)

\* destroy(e1) waits at unregister_editor for g_editors_mutex while the
\* render loop holds it for its snapshot.
C26_Witness ==
  /\ pc[1] = "de_unreg"
  /\ g_editors_mutex = "render"
  /\ rpc = "copy"

\* No caller is inside a call.
Quiescent == \A t \in CallerIds : pc[t] = "idle"

\* C27: whenever no call is in progress, editor->ctx is non-null exactly
\* for the editors in the active-editor list; after shutdown() no editor
\* keeps a context outside the list.
C27_ContextIffRegistered ==
  Quiescent =>
    \A e \in Editors : (edCtx[e] # NullCtx) <=> (e \in Range(g_active_editors))

\* C28: whenever no call is in progress, the global terminal object exists
\* exactly when the render loop thread has been started and not yet joined,
\* so that initialize() returning true through its early return means a
\* running render loop; this also after an initialize() that failed and
\* after shutdown() followed by a new initialize().
C28_TerminalIffRenderThread ==
  Quiescent => (g_terminal.exists <=> g_render_joinable)

\* The editor argument is null or its ctx is null.
NoContext(e) == e = NullEd \/ edCtx[e] = NullCtx

\* C29: set_parent, set_size, show, hide and get_size on a null editor or
\* an editor whose ctx is null return false, destroy on such an editor
\* returns at once (it goes past its test only for an editor with a
\* context), and such a call writes no reference parameter and leaves the
\* active-editor list, every context, every editor's ctx, every terminal,
\* the platform and the parameter queue unchanged and calls no callback.
C29_NoContextCallsRejected ==
  [][\A t \in CallerIds :
       /\ (/\ pc[t] = "idle" /\ pc'[t] = "idle" /\ opsLeft' < opsLeft
           /\ last'[t].op \in {"set_parent", "set_size", "show", "hide",
                                "get_size", "destroy"}
           /\ NoContext(last'[t].ed))
          => /\ last'[t].ret = IF last'[t].op = "destroy" THEN "void" ELSE "false"
             /\ last'[t].out = <<>>
             /\ UNCHANGED <<g_terminal, g_active_editors, g_parameter_queue, ctxs,
                            edCtx, platVars, delivered, discarded, crashed>>
       /\ (pc[t] = "idle" /\ pc'[t] = "de_remove") => ~NoContext(arg'[t])]_vars

\* get_size(e1) has returned false, writing nothing, for an editor that
\* was created and destroyed.
C29_Witness ==
  /\ Returned(1, "get_size", "e1")
  /\ last[1].ret = "false"
  /\ last[1].out = <<>>
  /\ Destroyed("e1")

====
